---- MODULE Spec2Model ----
(***************************************************************************)
(* Model of package token (token/fetcher.go): a Fetcher that caches one    *)
(* Token and refreshes it through an Adapter when the cached Token is      *)
(* absent or inside the expiry buffer.                                     *)
(*                                                                         *)
(* Time is counted in whole minutes.  The instant 0 is Go's zero           *)
(* time.Time (Expiry.IsZero()); the clock never reads 0.                   *)
(***************************************************************************)
EXTENDS Integers, Sequences, FiniteSets, TLC

\* ---------------------------------------------------------------- bounds
MaxTime == 3
MaxBuffer == 1
MaxOpts == 2

\* ------------------------------------------------------------- constants
\* defaultConfig.tokenExpiryBuffer = time.Minute
DefaultBuffer == 1

Times == 1..MaxTime
Instants == 0..MaxTime
Buffers == (0 - MaxBuffer)..MaxBuffer

\* ------------------------------------------------------------------ Token
ZeroToken ==
  [AccessToken |-> "", TokenType |-> "", RefreshToken |-> "", Expiry |-> 0, CreatedAt |-> 0]

Token ==
  [AccessToken : {"", "token-123", "another-token-123"},
   TokenType : {"", "bearer"},
   RefreshToken : {""},
   Expiry : Instants,
   CreatedAt : {0}]

\* error values; NoErr is Go's nil error
NoErr == "nil"
Errors == {"error", "context canceled"}

\* what one call of Adapter.Fetch can return: any Token with a nil error, or
\* an error together with the zero Token or with some non-zero Token
AdapterResults ==
  [tok : Token, err : {NoErr}]
    \cup [tok : {ZeroToken, [ZeroToken EXCEPT !.AccessToken = "token-123"]}, err : Errors]

\* placeholder for "the Adapter was not called"
NoCall == [tok |-> ZeroToken, err |-> NoErr]

\* context.Context values a caller can pass: context.Background(), and a
\* context that has been cancelled
Background == [name |-> "background", cancelled |-> FALSE, deadline |-> 0]
Cancelled == [name |-> "cancelled", cancelled |-> TRUE, deadline |-> 0]
Contexts == {Background, Cancelled}

\* placeholder for "no context was passed"
NoCtx == [name |-> "none", cancelled |-> FALSE, deadline |-> 0]

\* the Token remembered by an observer of the calls; None when there is none
None == [ZeroToken EXCEPT !.AccessToken = "<none>"]

VARIABLES
  token,    \* Fetcher.token, the cached Token
  buffer,   \* Fetcher.config.tokenExpiryBuffer
  now,      \* the reading of Fetcher.clock
  op,       \* the last operation performed
  rr,       \* the result of the last evaluation of refreshRequired()
  ret,      \* the Token returned by the last Fetch
  err,      \* the error returned by the last Fetch
  calls,    \* the number of Adapter.Fetch calls made by the last Fetch
  out,      \* what the Adapter returned to the last Fetch (NoCall when not called)
  issued,   \* the Token obtained by the last successful Fetch on an empty cache
  pkgDefault, \* the package variable defaultConfig
  lastOpt,  \* the last WithTokenExpiryBuffer option given to New: <<b>>, or <<>>
  ctx,      \* the context the caller passed to the last Fetch
  actx,     \* the context the Adapter received from the last Fetch
  smResp,   \* what GetSecretValue answered to the last awsSecretsManagerAdapter.Fetch
  smOut,    \* how the last awsSecretsManagerAdapter.Fetch ended
  pc,       \* per goroutine: where it is in its concurrent Fetch
  loc       \* per goroutine: the locals and the result of its concurrent Fetch

cfgVars == <<pkgDefault, lastOpt>>
ctxVars == <<ctx, actx>>
smVars == <<smResp, smOut>>
concVars == <<pc, loc>>

vars ==
  <<token, buffer, now, op, rr, ret, err, calls, out, issued, cfgVars, ctxVars, smVars,
    concVars>>

\* --------------------------------------------------------- configuration
WithTokenExpiryBuffer(b, c) == [c EXCEPT !.tokenExpiryBuffer = b]

defaultConfig == [tokenExpiryBuffer |-> DefaultBuffer]

RECURSIVE ApplyOpts(_, _)
ApplyOpts(c, opts) ==
  IF opts = <<>> THEN c
  ELSE ApplyOpts(WithTokenExpiryBuffer(Head(opts), c), Tail(opts))

\* faulty variant of ApplyOpts: the first option wins
ApplyOpts_firstWins(c, opts) ==
  IF opts = <<>> THEN c ELSE WithTokenExpiryBuffer(Head(opts), c)

\* faulty variant of New: the options are applied to the package variable
New_sharedConfig(d, opts) ==
  [config |-> ApplyOpts(d, opts), token |-> ZeroToken,
   defaultConfig |-> ApplyOpts(d, opts)]

\* New(adapter, opts...) with d the value of the package variable
\* defaultConfig; the options are the buffers passed to
\* WithTokenExpiryBuffer, in order.  c := defaultConfig copies the struct, so
\* the options act on the copy and the package variable keeps its value.
New(d, opts) ==
  [config |-> ApplyOpts(d, opts), token |-> ZeroToken, defaultConfig |-> d]

OptLists == UNION {[1..n -> Buffers] : n \in 0..MaxOpts}

\* ------------------------------------------------------------ time.Time
IsZero(t) == t = 0
Before(t, u) == t < u

\* -------------------------------------------------------------- Fetcher
\* faulty variants of refreshRequired
refreshRequired_notAfter(t, n, b) ==
  t.AccessToken = "" \/ (~IsZero(t.Expiry) /\ ~(n + b < t.Expiry))

refreshRequired_noEmptyCheck(t, n, b) ==
  ~IsZero(t.Expiry) /\ Before(t.Expiry, n + b)

refreshRequired_noZeroCheck(t, n, b) ==
  t.AccessToken = "" \/ Before(t.Expiry, n + b)

refreshRequired_bufferIgnored(t, n, b) ==
  t.AccessToken = "" \/ (~IsZero(t.Expiry) /\ Before(t.Expiry, n))

refreshRequired_bufferSubtracted(t, n, b) ==
  t.AccessToken = "" \/ (~IsZero(t.Expiry) /\ Before(t.Expiry, n - b))

refreshRequired(t, n, b) ==
  t.AccessToken = "" \/ (~IsZero(t.Expiry) /\ Before(t.Expiry, n + b))

\* faulty variants of refresh
refresh_cacheOnError(t, r) ==
  [token |-> r.tok, ret |-> IF r.err # NoErr THEN ZeroToken ELSE r.tok,
   err |-> r.err, calls |-> 1]

refresh_evictOnError(t, r) ==
  IF r.err # NoErr
    THEN [token |-> ZeroToken, ret |-> ZeroToken, err |-> r.err, calls |-> 1]
    ELSE [token |-> r.tok, ret |-> r.tok, err |-> NoErr, calls |-> 1]

refresh_retryOnError(t, r) ==
  IF r.err # NoErr
    THEN [token |-> t, ret |-> ZeroToken, err |-> r.err, calls |-> 2]
    ELSE [token |-> r.tok, ret |-> r.tok, err |-> NoErr, calls |-> 1]

refresh_notCached(t, r) ==
  IF r.err # NoErr
    THEN [token |-> t, ret |-> ZeroToken, err |-> r.err, calls |-> 1]
    ELSE [token |-> t, ret |-> r.tok, err |-> NoErr, calls |-> 1]

refresh_returnsOld(t, r) ==
  IF r.err # NoErr
    THEN [token |-> t, ret |-> ZeroToken, err |-> r.err, calls |-> 1]
    ELSE [token |-> r.tok, ret |-> t, err |-> NoErr, calls |-> 1]

\* refresh with r the result of the Adapter call it makes; gives the new
\* cached Token, the returned pair and the number of Adapter calls made
refresh(t, r) ==
  IF r.err # NoErr
    THEN [token |-> t, ret |-> ZeroToken, err |-> r.err, calls |-> 1]
    ELSE [token |-> r.tok, ret |-> r.tok, err |-> NoErr, calls |-> 1]

\* ------------------------------------------------- awsSecretsManagerAdapter
\* time.Time as it is written in a secret payload (RFC 3339); instant n is n
\* minutes after the zero time
Digit == <<"0", "1", "2", "3", "4", "5", "6", "7", "8", "9">>
TimeText(n) == "0001-01-01T00:0" \o Digit[n + 1] \o ":00Z"

\* time.Time.UnmarshalJSON on the text of a JSON string
ParseTime(str) ==
  IF \E n \in Instants : TimeText(n) = str
    THEN [ok |-> TRUE, t |-> CHOOSE n \in Instants : TimeText(n) = str]
    ELSE [ok |-> FALSE, t |-> 0]

\* JSON values: a string, or a number written as its literal
JStr(str) == [k |-> "string", s |-> str]
JNum(lit) == [k |-> "number", s |-> lit]

\* one member of a JSON object; vs is <<>> when the key is absent
Member(key, vs) == IF vs = <<>> THEN <<>> ELSE <<[key |-> key, val |-> vs[1]]>>

\* the instants written as expiry in the payloads: the zero time, the first
\* minute and the last
PayloadTimes == {0, 1, MaxTime}

\* secret payloads: text that is no JSON at all, and JSON objects with the
\* members access_token, token_type and expiry, each present or not
Malformed == [wellFormed |-> FALSE, members |-> <<>>]

Payloads ==
  {Malformed} \cup
  {[wellFormed |-> TRUE,
    members |-> Member("access_token", a) \o Member("token_type", ty) \o Member("expiry", e)] :
     a \in {<<>>, <<JStr("")>>, <<JStr("token-123")>>, <<JNum("123")>>},
     ty \in {<<>>, <<JStr("bearer")>>},
     e \in {<<>>, <<JStr("tomorrow")>>} \cup {<<JStr(TimeText(n))>> : n \in PayloadTimes}}

\* errors of the secrets store
SMErrors == {"secrets manager error", "context canceled"}

\* what GetSecretValue can answer: an error with an empty output, an output
\* whose SecretString is nil, or an output with a SecretString
StoreResponses ==
  [err : SMErrors, hasString : {FALSE}, payload : {Malformed}]
    \cup [err : {NoErr}, hasString : {FALSE}, payload : {Malformed}]
    \cup [err : {NoErr}, hasString : {TRUE}, payload : Payloads]

\* placeholders for "the secrets store adapter was not called"
NoResp == [err |-> NoErr, hasString |-> FALSE, payload |-> Malformed]
NoOut ==
  [called |-> FALSE, tok |-> ZeroToken, err |-> NoErr, panic |-> FALSE,
   parsed |-> FALSE, cause |-> NoErr, decoded |-> ZeroToken]

\* fmt.Errorf(tag + ": %w", cause)
Errorf(tag, cause) == tag \o ": " \o cause

FetchTag == "unable to fetch token from secrets manager"
ParseTag == "unable to parse token from secrets manager"

\* json.Unmarshal decoding the members ms into the Token t: a value of the
\* wrong JSON type for a string field is skipped and reported at the end
\* (saved), a time field that does not parse stops the decoding at once
RECURSIVE Decode(_, _, _)
Decode(ms, t, saved) ==
  IF ms = <<>> THEN [t |-> t, err |-> saved]
  ELSE LET m == Head(ms) IN
    IF m.key \in {"access_token", "token_type", "refresh_token"}
      THEN IF m.val.k = "string"
             THEN Decode(Tail(ms),
                         IF m.key = "access_token" THEN [t EXCEPT !.AccessToken = m.val.s]
                         ELSE IF m.key = "token_type" THEN [t EXCEPT !.TokenType = m.val.s]
                         ELSE [t EXCEPT !.RefreshToken = m.val.s],
                         saved)
             ELSE Decode(Tail(ms), t,
                         IF saved = NoErr
                           THEN "json: cannot unmarshal number into Go struct field"
                           ELSE saved)
    ELSE IF m.key \in {"expiry", "created_at"}
      THEN IF m.val.k # "string"
             THEN [t |-> t, err |-> "Time.UnmarshalJSON: input is not a JSON string"]
           ELSE IF ~ParseTime(m.val.s).ok
             THEN [t |-> t, err |-> "parsing time"]
           ELSE Decode(Tail(ms),
                       IF m.key = "expiry" THEN [t EXCEPT !.Expiry = ParseTime(m.val.s).t]
                       ELSE [t EXCEPT !.CreatedAt = ParseTime(m.val.s).t],
                       saved)
    ELSE Decode(Tail(ms), t, saved)

\* json.Unmarshal([]byte(payload), &t): the syntax is checked before anything
\* is stored
Unmarshal(payload, t) ==
  IF ~payload.wellFormed
    THEN [t |-> t, err |-> "invalid character"]
    ELSE Decode(payload.members, t, NoErr)

\* faulty variants of awsFetch
awsFetch_partialOnParseError(resp) ==
  IF resp.err # NoErr
    THEN [NoOut EXCEPT !.called = TRUE, !.err = Errorf(FetchTag, resp.err), !.cause = resp.err]
  ELSE IF ~resp.hasString
    THEN [NoOut EXCEPT !.called = TRUE, !.panic = TRUE]
  ELSE LET u == Unmarshal(resp.payload, ZeroToken) IN
    IF u.err # NoErr
      THEN [NoOut EXCEPT !.called = TRUE, !.parsed = TRUE, !.decoded = u.t, !.tok = u.t,
                         !.cause = u.err, !.err = Errorf(ParseTag, u.err)]
      ELSE [NoOut EXCEPT !.called = TRUE, !.parsed = TRUE, !.decoded = u.t, !.tok = u.t]

awsFetch_validating(resp) ==
  IF resp.err # NoErr
    THEN [NoOut EXCEPT !.called = TRUE, !.err = Errorf(FetchTag, resp.err), !.cause = resp.err]
  ELSE IF ~resp.hasString
    THEN [NoOut EXCEPT !.called = TRUE, !.panic = TRUE]
  ELSE LET u == Unmarshal(resp.payload, ZeroToken) IN
    IF u.err # NoErr
      THEN [NoOut EXCEPT !.called = TRUE, !.parsed = TRUE, !.decoded = u.t,
                         !.cause = u.err, !.err = Errorf(ParseTag, u.err)]
    ELSE IF u.t.AccessToken = ""
      THEN [NoOut EXCEPT !.called = TRUE, !.parsed = TRUE, !.decoded = u.t,
                         !.err = "empty access token"]
      ELSE [NoOut EXCEPT !.called = TRUE, !.parsed = TRUE, !.decoded = u.t, !.tok = u.t]

\* awsSecretsManagerAdapter.Fetch, given the answer resp of GetSecretValue.
\* tok and err are what it returns; panic: it did not return, dereferencing
\* a nil SecretString; parsed: json.Unmarshal was called; cause: the error
\* that was wrapped; decoded: the local Token t when it ended
awsFetch(resp) ==
  IF resp.err # NoErr
    THEN [NoOut EXCEPT !.called = TRUE, !.err = Errorf(FetchTag, resp.err), !.cause = resp.err]
  ELSE IF ~resp.hasString
    THEN [NoOut EXCEPT !.called = TRUE, !.panic = TRUE]
  ELSE LET u == Unmarshal(resp.payload, ZeroToken) IN
    IF u.err # NoErr
      THEN [NoOut EXCEPT !.called = TRUE, !.parsed = TRUE, !.decoded = u.t,
                         !.cause = u.err, !.err = Errorf(ParseTag, u.err)]
      ELSE [NoOut EXCEPT !.called = TRUE, !.parsed = TRUE, !.decoded = u.t, !.tok = u.t]

\* each answer of the secrets store with how the adapter's Fetch ends on it
StoreAnswers == {[resp |-> r, a |-> awsFetch(r)] : r \in StoreResponses}

\* ------------------------------------------------------ concurrent callers
\* the goroutines that call Fetch on the one Fetcher at the same time
Goroutines == {"g1", "g2"}

\* the fields of Token in the order of the struct; an assignment or a copy of
\* a Token moves them one after the other, with no lock around it
Fields == <<"AccessToken", "TokenType", "RefreshToken", "Expiry", "CreatedAt">>

\* what the Adapter answers to the concurrent callers
TokenA ==
  [ZeroToken EXCEPT !.AccessToken = "token-123", !.Expiry = MaxTime]
TokenB ==
  [ZeroToken EXCEPT !.AccessToken = "another-token-123", !.TokenType = "bearer"]
ConcResults ==
  {[tok |-> TokenA, err |-> NoErr], [tok |-> TokenB, err |-> NoErr],
   [tok |-> ZeroToken, err |-> "error"]}

\* the locals of a goroutine: seen, the fields of f.token that refreshRequired
\* has read; t, the Token of its Adapter call; i, the next field to move;
\* res and err, what its last Fetch returned; path, how that Fetch ended
NoLocals ==
  [seen |-> ZeroToken, t |-> ZeroToken, i |-> 0, res |-> ZeroToken, err |-> NoErr,
   path |-> "none"]

\* faulty variant of refreshReturn: the cache is read again for the result
refreshReturn_fromCache(t, cache) == cache

\* the Token refresh returns after f.token = t, given the local t and the
\* cache as it is at that moment
refreshReturn(t, cache) == t

\* the option list as the caller sees it: its last element, if any
LastOpt(opts) == IF opts = <<>> THEN <<>> ELSE <<opts[Len(opts)]>>

Init ==
  /\ \E opts \in OptLists :
       LET f == New(defaultConfig, opts) IN
         /\ buffer = f.config.tokenExpiryBuffer
         /\ token = f.token
         /\ pkgDefault = f.defaultConfig
         /\ lastOpt = LastOpt(opts)
  /\ now \in Times
  /\ op = "New"
  /\ rr = FALSE
  /\ ret = ZeroToken
  /\ err = NoErr
  /\ calls = 0
  /\ out = NoCall
  /\ issued = None
  /\ ctx = NoCtx
  /\ actx = NoCtx
  /\ smResp = NoResp
  /\ smOut = NoOut
  /\ pc = [g \in Goroutines |-> "idle"]
  /\ loc = [g \in Goroutines |-> NoLocals]

\* faulty variant of adapterContext: the Fetcher imposes its own deadline
adapterContext_withTimeout(c) == [c EXCEPT !.name = "timeout", !.deadline = 1]

\* the context refresh hands to adapter.Fetch, given the context c of Fetch
adapterContext(c) == c

\* Fetch(c) on a Fetcher whose Adapter answers with one of the results R
FetchCall(c, R) ==
  /\ op' = "Fetch"
  /\ ctx' = c
  /\ rr' = refreshRequired(token, now, buffer)
  /\ IF rr'
       THEN \E r \in R :
              LET res == refresh(token, r) IN
                /\ token' = res.token
                /\ ret' = res.ret
                /\ err' = res.err
                /\ calls' = res.calls
                /\ out' = r
                /\ actx' = adapterContext(c)
                /\ issued' = IF token.AccessToken = "" /\ res.err = NoErr
                                  /\ res.ret.AccessToken # ""
                               THEN res.ret ELSE issued
       ELSE /\ ret' = token
            /\ err' = NoErr
            /\ calls' = 0
            /\ out' = NoCall
            /\ actx' = NoCtx
            /\ UNCHANGED <<token, issued>>
  /\ UNCHANGED <<buffer, now, cfgVars, concVars>>

\* Fetch on a Fetcher with an arbitrary Adapter
Fetch ==
  /\ \E c \in Contexts : FetchCall(c, AdapterResults)
  /\ UNCHANGED smVars

\* Fetch on a Fetcher made by NewAWSSecretsManagerFetcher: the Adapter is the
\* awsSecretsManagerAdapter, and resp is what the secrets store answers if it
\* is asked.  When the Adapter panics, Fetch does not return.
FetchSM ==
  IF refreshRequired(token, now, buffer)
    THEN \E c \in Contexts, x \in StoreAnswers :
           /\ smResp' = x.resp
           /\ smOut' = x.a
           /\ IF x.a.panic
                THEN /\ op' = "Panic"
                     /\ ctx' = c
                     /\ actx' = adapterContext(c)
                     /\ rr' = TRUE
                     /\ calls' = 1
                     /\ out' = NoCall
                     /\ UNCHANGED <<token, buffer, now, ret, err, issued, cfgVars, concVars>>
                ELSE FetchCall(c, {[tok |-> x.a.tok, err |-> x.a.err]})
    ELSE \E c \in Contexts :
           /\ smResp' = NoResp
           /\ smOut' = NoOut
           /\ FetchCall(c, {NoCall})

\* the clock moves forward
Tick ==
  /\ \E n \in Times : n > now /\ now' = n
  /\ op' = "Tick"
  /\ UNCHANGED <<token, buffer, rr, ret, err, calls, out, issued, cfgVars, ctxVars, smVars,
               concVars>>

\* the wall clock is set back
ClockBack ==
  /\ \E n \in Times : n < now /\ now' = n
  /\ op' = "ClockBack"
  /\ UNCHANGED <<token, buffer, rr, ret, err, calls, out, issued, cfgVars, ctxVars, smVars,
               concVars>>

Next == Fetch \/ Tick \/ ClockBack

Spec == Init /\ [][Next]_vars

\* the same Fetcher under a clock that never moves backwards
NextMono == Fetch \/ Tick

SpecMono == Init /\ [][NextMono]_vars

TypeOK ==
  /\ token \in Token
  /\ buffer \in Buffers \cup {DefaultBuffer}
  /\ now \in Times
  /\ op \in {"New", "Fetch", "Tick", "ClockBack", "refreshRequired"}
  /\ rr \in BOOLEAN
  /\ ret \in Token
  /\ err \in Errors \cup {NoErr}
  /\ calls \in 0..1
  /\ out \in AdapterResults \cup {NoCall}
  /\ issued \in Token \cup {None}
  /\ pkgDefault = defaultConfig
  /\ lastOpt \in {<<>>} \cup {<<b>> : b \in Buffers}
  /\ ctx \in Contexts \cup {NoCtx}
  /\ actx \in Contexts \cup {NoCtx}

\* the Fetcher in front of the secrets store
NextAWS == FetchSM \/ Tick

SpecAWS == Init /\ [][NextAWS]_vars

\* --------------------------------------------- Fetch called concurrently
\* g enters Fetch; refreshRequired reads f.token.AccessToken
ReadAccessToken(g) ==
  /\ pc[g] = "idle"
  /\ pc' = [pc EXCEPT ![g] = "expiry"]
  /\ loc' = [loc EXCEPT ![g] =
               [NoLocals EXCEPT !.seen = [ZeroToken EXCEPT !.AccessToken = token.AccessToken]]]
  /\ UNCHANGED token

\* refreshRequired reads f.token.Expiry and decides
ReadExpiry(g) ==
  /\ pc[g] = "expiry"
  /\ LET seen == [loc[g].seen EXCEPT !.Expiry = token.Expiry] IN
       /\ loc' = [loc EXCEPT ![g].seen = seen, ![g].i = 1]
       /\ pc' = [pc EXCEPT ![g] =
                   IF refreshRequired(seen, now, buffer) THEN "adapter" ELSE "copy"]
  /\ UNCHANGED token

\* refresh: the Adapter call of g returns
CallAdapter(g) ==
  /\ pc[g] = "adapter"
  /\ \E r \in ConcResults :
       IF r.err # NoErr
         THEN /\ pc' = [pc EXCEPT ![g] = "idle"]
              /\ loc' = [loc EXCEPT ![g].res = ZeroToken, ![g].err = r.err,
                                     ![g].path = "failed"]
         ELSE /\ pc' = [pc EXCEPT ![g] = "store"]
              /\ loc' = [loc EXCEPT ![g].t = r.tok, ![g].i = 1]
  /\ UNCHANGED token

\* f.token = t, one field at a time; after the last field refresh returns
StoreField(g) ==
  /\ pc[g] = "store"
  /\ LET i == loc[g].i
         cache == [token EXCEPT ![Fields[i]] = loc[g].t[Fields[i]]] IN
       /\ token' = cache
       /\ IF i < Len(Fields)
            THEN /\ loc' = [loc EXCEPT ![g].i = i + 1]
                 /\ UNCHANGED pc
            ELSE /\ loc' = [loc EXCEPT ![g].res = refreshReturn(loc[g].t, cache),
                                        ![g].err = NoErr, ![g].path = "refresh"]
                 /\ pc' = [pc EXCEPT ![g] = "idle"]

\* return f.token, nil: the cached Token is copied out one field at a time
CopyField(g) ==
  /\ pc[g] = "copy"
  /\ LET i == loc[g].i IN
       IF i < Len(Fields)
         THEN /\ loc' = [loc EXCEPT ![g].res[Fields[i]] = token[Fields[i]], ![g].i = i + 1]
              /\ UNCHANGED pc
         ELSE /\ loc' = [loc EXCEPT ![g].res[Fields[i]] = token[Fields[i]],
                                     ![g].err = NoErr, ![g].path = "hit"]
              /\ pc' = [pc EXCEPT ![g] = "idle"]
  /\ UNCHANGED token

ConcStep(g) ==
  /\ \/ ReadAccessToken(g)
     \/ ReadExpiry(g)
     \/ CallAdapter(g)
     \/ StoreField(g)
     \/ CopyField(g)
  /\ UNCHANGED <<buffer, now, op, rr, ret, err, calls, out, issued, cfgVars, ctxVars, smVars>>

NextConc == \E g \in Goroutines : ConcStep(g)

SpecConc == Init /\ [][NextConc]_vars

\* ------------------------------------------------------------ construction
\* another Fetcher is constructed with New and takes the place of the
\* previous one
Construct ==
  /\ \E opts \in OptLists :
       LET f == New(pkgDefault, opts) IN
         /\ buffer' = f.config.tokenExpiryBuffer
         /\ token' = f.token
         /\ pkgDefault' = f.defaultConfig
         /\ lastOpt' = LastOpt(opts)
  /\ op' = "New"
  /\ rr' = FALSE
  /\ ret' = ZeroToken
  /\ err' = NoErr
  /\ calls' = 0
  /\ out' = NoCall
  /\ issued' = None
  /\ ctx' = NoCtx
  /\ actx' = NoCtx
  /\ UNCHANGED <<now, smVars, concVars>>

NextNew == Construct \/ Fetch

SpecNew == Init /\ [][NextNew]_vars

\* the predicate alone, on a Fetcher built field by field as
\* TestFetcher_refreshRequired builds it
InitRR ==
  /\ token \in Token
  /\ buffer \in Buffers
  /\ now \in Times
  /\ op = "New"
  /\ rr = FALSE
  /\ ret = ZeroToken
  /\ err = NoErr
  /\ calls = 0
  /\ out = NoCall
  /\ issued = None
  /\ pkgDefault = defaultConfig
  /\ lastOpt = <<>>
  /\ ctx = NoCtx
  /\ actx = NoCtx
  /\ smResp = NoResp
  /\ smOut = NoOut
  /\ pc = [g \in Goroutines |-> "idle"]
  /\ loc = [g \in Goroutines |-> NoLocals]

CallRefreshRequired ==
  /\ op = "New"
  /\ rr' = refreshRequired(token, now, buffer)
  /\ op' = "refreshRequired"
  /\ UNCHANGED <<token, buffer, now, ret, err, calls, out, issued, cfgVars, ctxVars, smVars,
               concVars>>

NextRR == CallRefreshRequired

SpecRR == InitRR /\ [][NextRR]_vars

\* ================================================================ claims

\* a cached Token that is valid to serve: non-empty access token, and an
\* expiry that is zero or not before now + buffer
Valid(t, n, b) == t.AccessToken # "" /\ (t.Expiry = 0 \/ t.Expiry >= n + b)

\* a refresh is due: the access token is empty, or the expiry is non-zero and
\* strictly before now + buffer
Stale(t, n, b) == t.AccessToken = "" \/ (t.Expiry # 0 /\ t.Expiry < n + b)

\* C1: a Fetch on a valid cached Token makes no Adapter call, returns exactly
\* the cached Token with a nil error and leaves the cache unchanged.
C1_ValidCacheHit ==
  [][(op' = "Fetch" /\ Valid(token, now, buffer))
       => (calls' = 0 /\ ret' = token /\ err' = NoErr /\ token' = token)]_vars

\* a cache hit on a Token whose expiry is exactly now + buffer
C1_Witness ==
  /\ op = "Fetch" /\ calls = 0 /\ err = NoErr /\ ret = token
  /\ token.AccessToken # "" /\ token.Expiry = now + buffer

\* C2: a Fetch on an empty cache calls the Adapter exactly once; when that
\* call succeeds with T, Fetch returns T with a nil error and the cache is T.
C2_EmptyCacheRefresh ==
  [][(op' = "Fetch" /\ token.AccessToken = "")
       => /\ calls' = 1
          /\ (out'.err = NoErr
                => (ret' = out'.tok /\ err' = NoErr /\ token' = out'.tok))]_vars

\* the Fetch that filled the empty cache
C2_Witness ==
  /\ op = "Fetch" /\ calls = 1 /\ out.err = NoErr /\ err = NoErr
  /\ ret = out.tok /\ token = out.tok /\ issued = out.tok

\* C3: when the Adapter call fails with e, Fetch returns the zero Token and
\* exactly e, and the cached Token is what it was before the call.
C3_AdapterFailure ==
  [][(op' = "Fetch" /\ calls' >= 1 /\ out'.err # NoErr)
       => (ret' = ZeroToken /\ err' = out'.err /\ token' = token)]_vars

\* a failed refresh of a stale but present Token, the Adapter having handed
\* back a non-zero Token with its error
C3_Witness ==
  /\ op = "Fetch" /\ calls = 1 /\ err # NoErr /\ err = out.err
  /\ ret = ZeroToken /\ out.tok # ZeroToken /\ token.AccessToken # ""
  /\ op = "Fetch" /\ token.Expiry # 0

\* a Token whose non-zero expiry is earlier than n
Expired(t, n) == t.Expiry # 0 /\ t.Expiry < n

\* C4 as stated: a Token returned by Fetch with a nil error never has a
\* non-zero expiry earlier than the time of the call.
C4_NeverServesExpired ==
  (op = "Fetch" /\ err = NoErr) => ~Expired(ret, now)

\* C4 (amended): with a non-negative buffer, a Token returned by Fetch with a
\* nil error is expired at the time of the call only when it is the Token the
\* Adapter returned during that call.
C4_ExpiredOnlyFromAdapter ==
  (op = "Fetch" /\ err = NoErr /\ buffer >= 0 /\ Expired(ret, now))
    => (calls = 1 /\ out.err = NoErr /\ out.tok = ret)

\* an expired Token passed through from the Adapter under a positive buffer
C4_Witness ==
  /\ op = "Fetch" /\ err = NoErr /\ buffer > 0 /\ Expired(ret, now)
  /\ calls = 1 /\ ret.AccessToken # ""

\* C5 as stated: Fetch never returns a nil error together with a Token whose
\* access token is empty.
C5_NeverServesEmpty ==
  (op = "Fetch" /\ err = NoErr) => ret.AccessToken # ""

\* C5 (amended): Fetch returns a nil error together with a Token with an
\* empty access token only when that Token is what the Adapter returned
\* during that call; the cache-hit path never serves one.
C5_EmptyOnlyFromAdapter ==
  (op = "Fetch" /\ err = NoErr /\ ret.AccessToken = "")
    => (calls = 1 /\ out.err = NoErr /\ out.tok = ret)

\* an empty Token passed through from the Adapter
C5_Witness ==
  /\ op = "Fetch" /\ err = NoErr /\ ret.AccessToken = "" /\ calls = 1
  /\ token = ret

\* C6: refreshRequired is true exactly when the access token is empty or the
\* expiry is non-zero and strictly before now + buffer; for a non-empty
\* access token, expiry = now gives false with buffer 0 and true with a
\* positive buffer, and expiry = now + buffer gives false.
C6_RefreshRequiredSpec ==
  op = "refreshRequired"
    => /\ rr <=> Stale(token, now, buffer)
       /\ (token.AccessToken = "" => rr)
       /\ (token.AccessToken # "" /\ token.Expiry = now /\ buffer = 0 => ~rr)
       /\ (token.AccessToken # "" /\ token.Expiry = now /\ buffer > 0 => rr)
       /\ (token.AccessToken # "" /\ token.Expiry = now + buffer => ~rr)

\* the boundary: expiry = now, buffer 0, no refresh required
C6_Witness ==
  /\ op = "refreshRequired" /\ token.AccessToken # ""
  /\ token.Expiry = now /\ buffer = 0 /\ ~rr

\* C7: once the cache holds a Token with a non-empty access token and a zero
\* expiry, the cache keeps it and every Fetch returns it without an Adapter
\* call, whatever the clock and the buffer.
C7_NoExpiryNeverStale ==
  [][(token.AccessToken # "" /\ token.Expiry = 0)
       => /\ token' = token
          /\ (op' = "Fetch" => (ret' = token /\ calls' = 0 /\ err' = NoErr))]_vars

\* a Token without expiry served from the cache at the latest time, under
\* the largest buffer
C7_Witness ==
  /\ op = "Fetch" /\ calls = 0 /\ ret = token /\ token.AccessToken # ""
  /\ token.Expiry = 0 /\ now = MaxTime /\ buffer = MaxBuffer

C9_AtMostOneAdapterCall ==
  op = "Fetch" => (calls <= 1 /\ (calls = 1 <=> rr))

\* the Adapter answered with an error and was not called again
C9_Witness ==
  /\ op = "Fetch" /\ calls = 1 /\ out.err # NoErr /\ err = out.err

\* C10: under a clock that does not move backwards, after a failed Fetch a
\* refresh is still required; the next Fetch calls the Adapter again and
\* returns its error, or on success returns and caches its Token.
C10_FailedRefreshRetried ==
  [][/\ (err' # NoErr => Stale(token', now', buffer'))
     /\ ((err # NoErr /\ op' = "Fetch")
           => /\ calls' = 1
              /\ IF out'.err # NoErr
                   THEN err' = out'.err /\ ret' = ZeroToken /\ token' = token
                   ELSE err' = NoErr /\ ret' = out'.tok /\ token' = out'.tok)]_vars

\* the clock has advanced after a failed refresh of a stale but present Token
C10_Witness ==
  /\ op = "Tick" /\ err # NoErr /\ token.AccessToken # "" /\ token.Expiry # 0

\* C11: a Fetcher constructed by New starts with an empty cache and a buffer
\* of 1 minute, or the buffer of the last WithTokenExpiryBuffer option given;
\* the package default stays 1 minute whatever Fetchers were constructed
\* before.
C11_NewDefaults ==
  /\ op = "New"
       => /\ token = ZeroToken
          /\ buffer = IF lastOpt = <<>> THEN DefaultBuffer ELSE lastOpt[1]
  /\ pkgDefault.tokenExpiryBuffer = DefaultBuffer

\* a Fetcher constructed with an option other than the default, the package
\* default untouched
C11_Witness ==
  /\ op = "New" /\ lastOpt # <<>> /\ buffer = lastOpt[1] /\ buffer # DefaultBuffer
  /\ token = ZeroToken /\ pkgDefault = defaultConfig

\* C12: when the store call fails, the secrets-store adapter returns the zero
\* Token and the store's error wrapped under the fetch tag, without parsing;
\* when the payload does not parse, it returns the zero Token, whatever was
\* decoded so far, and the parse error wrapped under the parse tag.
C12_AdapterFailurePhases ==
  smOut.called
    => /\ smResp.err # NoErr
            => /\ smOut.tok = ZeroToken /\ ~smOut.parsed /\ ~smOut.panic
               /\ smOut.err = Errorf(FetchTag, smResp.err)
       /\ (smOut.parsed /\ smOut.cause # NoErr)
            => /\ smOut.tok = ZeroToken /\ ~smOut.panic
               /\ smOut.err = Errorf(ParseTag, smOut.cause)
               /\ smOut.err # Errorf(FetchTag, smOut.cause)
       /\ (smResp.hasString /\ ~smResp.payload.wellFormed)
            => (smOut.parsed /\ smOut.cause # NoErr)

\* a payload whose access token was decoded before its expiry failed to
\* parse: the partly filled Token is dropped
C12_Witness ==
  /\ smOut.called /\ smOut.parsed /\ smOut.cause = "parsing time"
  /\ smOut.decoded.AccessToken = "token-123" /\ smOut.tok = ZeroToken
  /\ op = "Fetch" /\ err = Errorf(ParseTag, "parsing time") /\ ret = ZeroToken

\* C13: the cache starts as the empty Token and changes only in a Fetch whose
\* Adapter call succeeded, to exactly the Token that call returned; cache hits,
\* failed refreshes and the clock leave it alone.
C13_CacheChangesOnlyOnSuccess ==
  /\ token = ZeroToken
  /\ [][ /\ (token' # token)
              => (op' = "Fetch" /\ calls' = 1 /\ out'.err = NoErr /\ token' = out'.tok)
         /\ (op' = "Fetch" /\ calls' = 1 /\ out'.err = NoErr) => token' = out'.tok
         /\ (op' = "Fetch" /\ (calls' = 0 \/ out'.err # NoErr)) => token' = token ]_vars

\* a later successful refresh has replaced the Token first obtained
C13_Witness ==
  /\ op = "Fetch" /\ calls = 1 /\ out.err = NoErr /\ token = out.tok
  /\ issued # None /\ token # issued /\ token.AccessToken # ""

\* C14: a Token with an empty access token that the Adapter returns with a
\* nil error is not validated: the secrets-store adapter returns what it
\* decoded, refresh caches and returns it, and a Fetch on a cache with an
\* empty access token calls the Adapter again.
C14_EmptyTokenNotValidated ==
  [][/\ (op' = "Fetch" /\ calls' = 1 /\ out'.err = NoErr /\ out'.tok.AccessToken = "")
          => (token' = out'.tok /\ ret' = out'.tok /\ err' = NoErr
                /\ Stale(token', now', buffer'))
     /\ (token.AccessToken = "" /\ op' \in {"Fetch", "Panic"}) => calls' = 1
     /\ (op' = "Fetch" /\ smOut'.called /\ smOut'.parsed /\ smOut'.cause = NoErr)
          => (smOut'.err = NoErr /\ smOut'.tok = smOut'.decoded
                /\ out'.tok = smOut'.decoded /\ out'.err = NoErr)]_vars

\* a decoded Token with a token type and no access token, returned and cached
C14_Witness ==
  /\ op = "Fetch" /\ calls = 1 /\ err = NoErr /\ smOut.called /\ smOut.parsed
  /\ token = smOut.tok /\ ret = token
  /\ token.AccessToken = "" /\ token.TokenType = "bearer"

\* the Tokens that are whole: the initial one and those of the Adapter
WholeTokens == {ZeroToken} \cup {r.tok : r \in {x \in ConcResults : x.err = NoErr}}

\* C15 as stated: under concurrent Fetch calls the cache, whenever no
\* assignment to it is under way, holds the initial Token or the whole Token
\* of one Adapter call, and no caller is returned a mixture of two Tokens.
C15_NoMixture ==
  /\ (\A g \in Goroutines : pc[g] # "store") => token \in WholeTokens
  /\ \A g \in Goroutines :
       (pc[g] = "idle" /\ loc[g].path \in {"hit", "refresh"}) => loc[g].res \in WholeTokens

\* C15 (amended): under concurrent Fetch calls, a call that refreshed
\* successfully returns exactly the Token its own Adapter call returned, and
\* a call whose Adapter failed returns the zero Token with the error.
C15_RefreshReturnsOwnToken ==
  \A g \in Goroutines :
    /\ (pc[g] = "idle" /\ loc[g].path = "refresh")
         => (loc[g].res = loc[g].t /\ loc[g].err = NoErr /\ loc[g].res \in WholeTokens)
    /\ (pc[g] = "idle" /\ loc[g].path = "failed")
         => (loc[g].res = ZeroToken /\ loc[g].err # NoErr)

\* a goroutine has returned the Token of its own Adapter call while the cache
\* holds a mixture left by the two racing assignments
C15_Witness ==
  \E g \in Goroutines :
    /\ pc[g] = "idle" /\ loc[g].path = "refresh" /\ loc[g].res = loc[g].t
    /\ token \notin WholeTokens

\* C16: when Fetch calls the Adapter it passes the context it was given, and
\* a cancellation error of the Adapter reaches the caller as it is, the cache
\* untouched.
C16_ContextPassedUnchanged ==
  [][(op' = "Fetch" /\ calls' = 1)
       => /\ actx' = ctx'
          /\ out'.err = "context canceled"
               => (err' = "context canceled" /\ ret' = ZeroToken /\ token' = token)]_vars

\* a cancelled context handed on, the Adapter's cancellation error returned
\* and the stale Token kept
C16_Witness ==
  /\ op = "Fetch" /\ calls = 1 /\ ctx = Cancelled /\ actx = Cancelled
  /\ err = "context canceled" /\ token.AccessToken # ""

\* C17: for every answer of the secrets store, the adapter's Fetch ends by
\* returning a decoded Token with a nil error or the zero Token with an
\* error.
C17_AdapterAlwaysReturns ==
  smOut.called
    => /\ ~smOut.panic
       /\ \/ smOut.err = NoErr /\ smOut.parsed /\ smOut.tok = smOut.decoded
          \/ smOut.err # NoErr /\ smOut.tok = ZeroToken

\* C18: with a buffer of zero or more, a Token returned by Fetch without an
\* Adapter call has a non-empty access token and an expiry that is zero or
\* not earlier than now + buffer.
C18_CacheHitOutsideBuffer ==
  (op = "Fetch" /\ calls = 0 /\ buffer >= 0)
    => /\ ret.AccessToken # ""
       /\ (ret.Expiry = 0 \/ ret.Expiry >= now + buffer)

\* a cache hit under a positive buffer on a Token at the edge of its window
C18_Witness ==
  /\ op = "Fetch" /\ calls = 0 /\ buffer > 0 /\ ret.Expiry = now + buffer
  /\ ret.TokenType = "bearer" /\ ret.AccessToken = "another-token-123"

====
